---- MODULE Spec2Model ----
(***************************************************************************)
(* Peer-evaluation assignment (send-solutions), exam editing and exam      *)
(* deletion of backend/src/routes/teacher/teacher.routes.ts, over the      *)
(* Exam, Submission and Evaluation collections.                            *)
(*                                                                         *)
(* Every request handler is an async function: it runs without             *)
(* interruption between two awaited store operations, so one action of     *)
(* the model is one awaited store operation together with the synchronous  *)
(* code that follows it up to the next await.                              *)
(***************************************************************************)
EXTENDS Integers, Sequences, FiniteSets, Bags, TLC

VARIABLES exams, submissions, evaluations, reqs, started, concurrent,
          users, batch

vars == <<exams, submissions, evaluations, reqs, started, concurrent,
          users, batch>>

\* ------------------------------------------------------------------ bounds
MaxK == 2
MaxQuestions == 2
MaxRequests == 2
MaxRows == 2

Students == {1, 2, 3}
Teachers == {"t1"}
ExamIds == {"e1", "e2"}
Procs == 1..2
Emails == {"a", "b", "t"}
Courses == {"c1", "c2"}

\* k as the exam routes can store it: schedule-exam and edit-exam check only
\* that k is truthy, never its sign.
KValues == (0 - 1)..MaxK

\* ------------------------------------------------------- pure helpers
Min(a, b) == IF a < b THEN a ELSE b

Max(a, b) == IF a > b THEN a ELSE b

\* Array.prototype.slice(start, end): negative indices count from the end,
\* indices beyond the length are clamped.
SliceIndex(len, x) == IF x < 0 THEN Max(len + x, 0) ELSE Min(x, len)

Slice(s, start, end) ==
    SubSeq(s, SliceIndex(Len(s), start) + 1, SliceIndex(Len(s), end))

\* Mutant: the filter that drops the evaluator is left out.
OtherStudentsUnfiltered(students, i) == students

\* students.filter((_, index) => index !== i), i counted from 1 here.
OtherStudents(students, i) ==
    [x \in 1..(Len(students) - 1) |->
        IF x < i THEN students[x] ELSE students[x + 1]]

\* otherStudents.sort(() => 0.5 - Math.random()): some rearrangement of the
\* array, whichever the random comparator produces.
Shuffles(s) ==
    LET n == Len(s)
        Perms == {f \in [1..n -> 1..n] : \A a, b \in 1..n : f[a] = f[b] => a = b}
    IN  {[x \in 1..n |-> s[f[x]]] : f \in Perms}

\* Mutant: the shuffled array is not cut down to k.
AssignedEvaluateesUncut(shuffled, k) == shuffled

\* shuffled.slice(0, Math.min(k, otherStudents.length))
AssignedEvaluatees(shuffled, k) == Slice(shuffled, 0, Min(k, Len(shuffled)))

\* Mutant: the marks array is one entry short.
ZeroMarksShort(numQuestions) == [q \in 1..(numQuestions - 1) |-> 0]

\* new Array(exam.numQuestions).fill(0)
ZeroMarks(numQuestions) == [q \in 1..numQuestions |-> 0]

\* Mutant: the new document is given the final status.
NewEvaluationCompleted(examId, evaluator, evaluatee, numQuestions) ==
    [exam |-> examId, evaluator |-> evaluator, evaluatee |-> evaluatee,
     marks |-> [q \in 1..numQuestions |-> 0], feedback |-> "", status |-> "completed"]

\* The document handed to Evaluation.create.
NewEvaluation(examId, evaluator, evaluatee, numQuestions) ==
    [exam |-> examId, evaluator |-> evaluator, evaluatee |-> evaluatee,
     marks |-> ZeroMarks(numQuestions), feedback |-> "", status |-> "pending"]

\* Mutant: the existence check has evaluator and evaluatee the wrong way round.
EvaluationExistsSwapped(examId, evaluator, evaluatee) ==
    \E rec \in BagToSet(evaluations) :
        /\ rec.exam = examId
        /\ rec.evaluator = evaluatee
        /\ rec.evaluatee = evaluator

\* Evaluation.findOne({exam, evaluator, evaluatee}) returns a document.
EvaluationExists(examId, evaluator, evaluatee) ==
    \E rec \in BagToSet(evaluations) :
        /\ rec.exam = examId
        /\ rec.evaluator = evaluator
        /\ rec.evaluatee = evaluatee

\* Mutant: the query leaves out createdBy.
ExamFoundAnyOwner(examId, teacher) == exams[examId].exists

\* Exam.findOne({_id: examId, createdBy: teacherId}) returns a document.
ExamFound(examId, teacher) ==
    exams[examId].exists /\ exams[examId].createdBy = teacher

\* ------------------------------------------------------------- requests
NoExam == [exists |-> FALSE, createdBy |-> "t1", k |-> 0, numQuestions |-> 0]

NoUser == [exists |-> FALSE, role |-> "student", enrolledCourses |-> <<>>]

NoBatch == [exists |-> FALSE, course |-> "c1", students |-> <<>>]

\* What a request found in the collections when it arrived.
NoStores ==
    [exams |-> [e \in ExamIds |-> NoExam],
     submissions |-> [e \in ExamIds |-> <<>>],
     evaluations |-> EmptyBag,
     users |-> [m \in Emails |-> NoUser],
     batch |-> NoBatch]

Stores ==
    [exams |-> exams, submissions |-> submissions, evaluations |-> evaluations,
     users |-> users, batch |-> batch]

IdleReq ==
    [op |-> "none", pc |-> "idle", examId |-> "e1", teacher |-> "t1",
     exam |-> NoExam, modified |-> {}, students |-> <<>>, i |-> 0,
     assigned |-> <<>>, j |-> 0, status |-> 0, error |-> "",
     email |-> "a", courseCode |-> "c1", enrolledCount |-> 0,
     pre |-> NoStores]

Running(r) == r.pc \notin {"idle", "done"}

\* A request takes the first slot that holds no running request; when
\* requests are served one after another, only while no request is running.
CanStart(p) ==
    /\ ~Running(reqs[p])
    /\ \A q \in Procs : q < p => Running(reqs[q])
    /\ started < MaxRequests
    /\ concurrent \/ \A q \in Procs : ~Running(reqs[q])

\* The handler answers and returns; its loop variables are gone.
Respond(r, status, error) ==
    [r EXCEPT !.pc = "done", !.status = status, !.error = error,
              !.i = 0, !.j = 0, !.assigned = <<>>]

\* A request as it arrives.
Arrive(op, t, e) ==
    [IdleReq EXCEPT !.op = op, !.examId = e, !.teacher = t, !.pre = Stores]

\* ------------------------------------------------------ send-solutions
\* const exam = await Exam.findOne({_id: examId, createdBy: teacherId})
SendFindExam(p, t, e) ==
    /\ CanStart(p)
    /\ started' = started + 1
    /\ LET r == Arrive("send", t, e)
       IN  reqs' = [reqs EXCEPT ![p] =
                IF ExamFound(e, t)
                THEN [r EXCEPT !.pc = "findSubmissions", !.exam = exams[e]]
                ELSE Respond(r, 404, "Exam not found or unauthorized")]
    /\ UNCHANGED <<exams, submissions, evaluations, concurrent, users, batch>>

\* The request once evaluator number i has its evaluatees chosen.
WithEvaluator(r, i, shuffled) ==
    [r EXCEPT !.i = i, !.j = 1, !.pc = "findEvaluation",
              !.assigned = AssignedEvaluatees(shuffled, r.exam.k)]

\* const submissions = await Submission.find({exam: examId}); then the loop
\* up to its first await. Every evaluator has students.length - 1 other
\* students, so either every evaluator is assigned somebody or nobody is,
\* and in the latter case the loops end without awaiting anything.
SendFindSubmissions(p) ==
    /\ reqs[p].op = "send" /\ reqs[p].pc = "findSubmissions"
    /\ LET r == [reqs[p] EXCEPT !.students = submissions[reqs[p].examId]]
       IN  IF Len(r.students) = 0
           THEN reqs' = [reqs EXCEPT ![p] =
                    Respond(r, 400, "No submissions found for this exam")]
           ELSE \E shuffled \in Shuffles(OtherStudents(r.students, 1)) :
                  reqs' = [reqs EXCEPT ![p] =
                    IF Len(AssignedEvaluatees(shuffled, r.exam.k)) = 0
                    THEN Respond(r, 200, "")
                    ELSE WithEvaluator(r, 1, shuffled)]
    /\ UNCHANGED <<exams, submissions, evaluations, started, concurrent, users, batch>>

\* The requests the loops can be in at their next await, after the
\* evaluatee number j of evaluator number i has been dealt with.
AfterEvaluatee(r) ==
    IF r.j < Len(r.assigned)
    THEN {[r EXCEPT !.j = r.j + 1, !.pc = "findEvaluation"]}
    ELSE IF r.i < Len(r.students)
    THEN {WithEvaluator(r, r.i + 1, shuffled) :
            shuffled \in Shuffles(OtherStudents(r.students, r.i + 1))}
    ELSE {Respond(r, 200, "")}

\* const existingEvaluation = await Evaluation.findOne({...})
SendFindEvaluation(p) ==
    /\ reqs[p].op = "send" /\ reqs[p].pc = "findEvaluation"
    /\ LET r == reqs[p]
       IN  IF EvaluationExists(r.examId, r.students[r.i], r.assigned[r.j])
           THEN \E r2 \in AfterEvaluatee(r) : reqs' = [reqs EXCEPT ![p] = r2]
           ELSE reqs' = [reqs EXCEPT ![p].pc = "createEvaluation"]
    /\ UNCHANGED <<exams, submissions, evaluations, started, concurrent, users, batch>>

\* The collection after Evaluation.create(rec): one more document. The
\* Evaluation schema declares the collection's indexes; the store is taken
\* as the design describes it, an existence check and a plain insert.
Created(bag, rec) == bag (+) SetToBag({rec})

\* await Evaluation.create({...})
SendCreateEvaluation(p) ==
    /\ reqs[p].op = "send" /\ reqs[p].pc = "createEvaluation"
    /\ LET r == reqs[p]
       IN  /\ evaluations' = Created(evaluations,
                  NewEvaluation(r.examId, r.students[r.i], r.assigned[r.j],
                                r.exam.numQuestions))
           /\ \E r2 \in AfterEvaluatee(r) : reqs' = [reqs EXCEPT ![p] = r2]
    /\ UNCHANGED <<exams, submissions, started, concurrent, users, batch>>

\* ---------------------------------------------------------- delete-exam
\* const exam = await Exam.findOne({_id: examId, createdBy: req.user._id})
DeleteFindExam(p, t, e) ==
    /\ CanStart(p)
    /\ started' = started + 1
    /\ LET r == Arrive("delete", t, e)
       IN  reqs' = [reqs EXCEPT ![p] =
                IF ExamFound(e, t)
                THEN [r EXCEPT !.pc = "deleteEvaluations", !.exam = exams[e]]
                ELSE Respond(r, 404, "Exam not found or unauthorized")]
    /\ UNCHANGED <<exams, submissions, evaluations, concurrent, users, batch>>

\* Mutant: the evaluations of the exam are not deleted.
WithoutExamKept(bag, examId) == bag

\* The collection after Evaluation.deleteMany({exam: examId}).
WithoutExam(bag, examId) ==
    [rec \in {x \in BagToSet(bag) : x.exam # examId} |-> bag[rec]]

\* await Evaluation.deleteMany({exam: examId})
DeleteEvaluations(p) ==
    /\ reqs[p].op = "delete" /\ reqs[p].pc = "deleteEvaluations"
    /\ evaluations' = WithoutExam(evaluations, reqs[p].examId)
    /\ reqs' = [reqs EXCEPT ![p].pc = "deleteSubmissions"]
    /\ UNCHANGED <<exams, submissions, started, concurrent, users, batch>>

\* await Submission.deleteMany({exam: examId})
DeleteSubmissions(p) ==
    /\ reqs[p].op = "delete" /\ reqs[p].pc = "deleteSubmissions"
    /\ submissions' = [submissions EXCEPT ![reqs[p].examId] = <<>>]
    /\ reqs' = [reqs EXCEPT ![p].pc = "deleteExam"]
    /\ UNCHANGED <<exams, evaluations, started, concurrent, users, batch>>

\* await Exam.deleteOne({_id: examId}); res.status(200)
DeleteExam(p) ==
    /\ reqs[p].op = "delete" /\ reqs[p].pc = "deleteExam"
    /\ exams' = [exams EXCEPT ![reqs[p].examId] = NoExam]
    /\ reqs' = [reqs EXCEPT ![p] = Respond(reqs[p], 200, "")]
    /\ UNCHANGED <<submissions, evaluations, started, concurrent, users, batch>>

\* ------------------------------------------------------------ edit-exam
\* The exam document after the handler's assignments, and the paths they
\* changed. A field absent from the body, like a k of 0, is falsy.
Edited(doc, k, numQuestions) ==
    [doc EXCEPT !.numQuestions =
                    IF numQuestions # 0 /\ numQuestions # doc.numQuestions
                    THEN numQuestions ELSE doc.numQuestions,
                !.k = IF k # 0 THEN k ELSE doc.k]

ModifiedPaths(doc, k, numQuestions) ==
    {f \in {"k", "numQuestions"} : Edited(doc, k, numQuestions)[f] # doc[f]}

\* const exam = await Exam.findOne({_id: examId, createdBy: req.user._id});
\* then the assignments to the document, up to exam.save().
EditFindExam(p, t, e, k, numQuestions) ==
    /\ CanStart(p)
    /\ started' = started + 1
    /\ LET r == Arrive("edit", t, e)
       IN  reqs' = [reqs EXCEPT ![p] =
                IF ExamFound(e, t)
                THEN [r EXCEPT !.pc = "save",
                               !.exam = Edited(exams[e], k, numQuestions),
                               !.modified = ModifiedPaths(exams[e], k, numQuestions)]
                ELSE Respond(r, 404, "Exam not found or unauthorized")]
    /\ UNCHANGED <<exams, submissions, evaluations, concurrent, users, batch>>

\* await exam.save(): writes the changed paths of the stored document, and
\* rejects when there are such paths and the document is gone.
EditSave(p) ==
    /\ reqs[p].op = "edit" /\ reqs[p].pc = "save"
    /\ LET r == reqs[p]
           gone == r.modified # {} /\ ~exams[r.examId].exists
       IN  /\ exams' = IF gone THEN exams
                       ELSE [exams EXCEPT ![r.examId] =
                               [f \in DOMAIN @ |-> IF f \in r.modified THEN r.exam[f] ELSE @[f]]]
           /\ reqs' = [reqs EXCEPT ![p] =
                         IF gone THEN Respond(r, 500, "Failed to update exam")
                         ELSE Respond(r, 200, "")]
    /\ UNCHANGED <<submissions, evaluations, started, concurrent, users, batch>>

\* ------------------------------------------------------------- failures
\* The message of each handler's catch block.
CatchMessage(op) ==
    CASE op = "send" -> "Failed to send solutions for evaluation"
      [] op = "edit" -> "Failed to update exam"
      [] OTHER -> "Failed to delete exam"

\* The store operation a request is waiting for rejects: the handler's
\* catch block answers 500 and the handler ends.
Fail(p) ==
    /\ Running(reqs[p])
    /\ reqs' = [reqs EXCEPT ![p] = Respond(reqs[p], 500, CatchMessage(reqs[p].op))]
    /\ UNCHANGED <<exams, submissions, evaluations, started, concurrent, users, batch>>

\* --------------------------------------------------- evaluator's marking
\* The marks an evaluator hands in for a pending evaluation.
Marked(rec) ==
    [rec EXCEPT !.marks = [q \in DOMAIN rec.marks |-> 1], !.feedback = "ok",
                !.status = "completed"]

\* An evaluator's request hands in marks and feedback for one of the
\* evaluator's pending evaluations.
SubmitMarks(p, rec) ==
    /\ CanStart(p)
    /\ started' = started + 1
    /\ BagIn(rec, evaluations) /\ rec.status = "pending"
    /\ evaluations' = (evaluations (-) SetToBag({rec})) (+) SetToBag({Marked(rec)})
    /\ reqs' = [reqs EXCEPT ![p] = Respond(Arrive("mark", IdleReq.teacher, rec.exam), 200, "")]
    /\ UNCHANGED <<exams, submissions, concurrent, users, batch>>

\* ------------------------------------------------------ enroll-students
\* The handlers of this and the next section are taken whole, from request
\* to response: requests to them are followed one after another only.

\* The students of a list.
Range(s) == {s[x] : x \in DOMAIN s}

\* The rows of a request: (name, email) pairs, of which the email decides
\* everything. The rows of student a are taken first.
RowLists ==
    {s \in UNION {[1..n -> {"a", "b"}] : n \in 0..MaxRows} :
        \A x, y \in DOMAIN s : (x < y /\ s[x] = "b") => s[y] = "b"}

\* The rows a request is tried with: without a batch no row is looked at.
RowsRead == IF batch.exists THEN RowLists ELSE {<<>>}

\* The User collection after the loop over the rows: a user is created for
\* an unknown email, the batch's course is added to a known user who does
\* not have it. A user's _id is named by the email.
AfterRows(us, rows, course) ==
    [m \in Emails |->
        IF m \notin Range(rows) THEN us[m]
        ELSE IF ~us[m].exists
        THEN [exists |-> TRUE, role |-> "student", enrolledCourses |-> <<course>>]
        ELSE IF course \in Range(us[m].enrolledCourses) THEN us[m]
        ELSE [us[m] EXCEPT !.enrolledCourses = Append(@, course)]]

\* enrolledStudentIds: the _id of each row's user, one push per row.
EnrolledStudentIds(rows) == rows

\* enrolledStudentIds.filter(id => !existingStudentIds.includes(id.toString()))
NewStudentIds(students, enrolledStudentIds) ==
    LET Absent(id) == id \notin Range(students)
    IN  SelectSeq(enrolledStudentIds, Absent)

\* POST /enroll-students and enrollStudentsToBatch: the same steps behind a
\* CSV upload and behind a JSON body.
EnrollStudents(p, rows) ==
    /\ CanStart(p)
    /\ started' = started + 1
    /\ LET r == Arrive("enroll", IdleReq.teacher, IdleReq.examId)
           newStudentIds == NewStudentIds(batch.students, EnrolledStudentIds(rows))
       IN  IF ~batch.exists
           THEN /\ reqs' = [reqs EXCEPT ![p] = Respond(r, 404, "Batch not found")]
                /\ UNCHANGED <<users, batch>>
           ELSE /\ users' = AfterRows(users, rows, batch.course)
                /\ batch' = [batch EXCEPT !.students = @ \o newStudentIds]
                /\ reqs' = [reqs EXCEPT ![p] =
                      Respond([r EXCEPT !.students = rows,
                                        !.enrolledCount = Len(newStudentIds)], 200, "")]
    /\ UNCHANGED <<exams, submissions, evaluations, concurrent>>

\* ------------------------------------------- teacher-course assignment
\* User.findOne({email, role: 'teacher'}) returns a document.
TeacherFound(email) == users[email].exists /\ users[email].role = "teacher"

\* The course codes a request for the teacher of an email is tried with: the
\* code is looked up only once the teacher is found. No course has code cx.
CodesRead(email) == IF TeacherFound(email) THEN Courses \cup {"cx"} ELSE {"cx"}

\* Mutant: the check for an assignment already there never finds one.
AlreadyAssignedNever(enrolledCourses, courseId) == FALSE

\* teacher.enrolledCourses.some(id => id.equals(courseId))
AlreadyAssigned(enrolledCourses, courseId) == courseId \in Range(enrolledCourses)

\* teacher.enrolledCourses.filter(id => !id.equals(courseId))
WithoutCourse(enrolledCourses, courseId) ==
    LET Other(id) == id # courseId
    IN  SelectSeq(enrolledCourses, Other)

\* The 404 of both handlers, when the teacher or the course is not found;
\* the response carries the message only.
NotFound(r) ==
    LET answered == [r EXCEPT !.email = IdleReq.email, !.courseCode = IdleReq.courseCode]
    IN  IF ~TeacherFound(r.email) THEN Respond(answered, 404, "Teacher not found")
        ELSE Respond(answered, 404, "Course not found")

\* assignTeacherToCourse
AssignTeacherToCourse(p, email, courseCode) ==
    /\ CanStart(p)
    /\ started' = started + 1
    /\ LET r == [Arrive("assign", IdleReq.teacher, IdleReq.examId)
                    EXCEPT !.email = email, !.courseCode = courseCode]
       IN  IF ~TeacherFound(email) \/ courseCode \notin Courses
           THEN /\ reqs' = [reqs EXCEPT ![p] = NotFound(r)]
                /\ UNCHANGED users
           ELSE /\ users' = IF AlreadyAssigned(users[email].enrolledCourses, courseCode)
                            THEN users
                            ELSE [users EXCEPT ![email].enrolledCourses = Append(@, courseCode)]
                /\ reqs' = [reqs EXCEPT ![p] = Respond(r, 200, "")]
    /\ UNCHANGED <<exams, submissions, evaluations, concurrent, batch>>

\* unassignTeacherFromCourse
UnassignTeacherFromCourse(p, email, courseCode) ==
    /\ CanStart(p)
    /\ started' = started + 1
    /\ LET r == [Arrive("unassign", IdleReq.teacher, IdleReq.examId)
                    EXCEPT !.email = email, !.courseCode = courseCode]
       IN  IF ~TeacherFound(email) \/ courseCode \notin Courses
           THEN /\ reqs' = [reqs EXCEPT ![p] = NotFound(r)]
                /\ UNCHANGED users
           ELSE /\ users' = [users EXCEPT ![email].enrolledCourses =
                                WithoutCourse(@, courseCode)]
                /\ reqs' = [reqs EXCEPT ![p] = Respond(r, 200, "")]
    /\ UNCHANGED <<exams, submissions, evaluations, concurrent, batch>>

\* ------------------------------------------------------------------ init
ExamDocs(t) ==
    [exists : {TRUE}, createdBy : {t}, k : KValues, numQuestions : 1..MaxQuestions]

OtherExam == [exists |-> TRUE, createdBy |-> "t2", k |-> 1, numQuestions |-> 1]

\* The lists Submission.find can return for an exam, the students named in
\* the order of their ids (the handlers treat every student alike).
ListsOfLength(n) ==
    {s \in [1..n -> Students] : \A a, b \in 1..n : a < b => s[a] <= s[b]}

\* ... with at most one submission per student,
DistinctLists ==
    {s \in UNION {ListsOfLength(n) : n \in 0..Cardinality(Students)} :
        \A a, b \in 1..Len(s) : s[a] = s[b] => a = b}

\* The evaluations of the other exam, as an earlier send-solutions left them.
OtherEvaluations ==
    SetToBag({NewEvaluation("e2", 1, 2, 1), NewEvaluation("e2", 2, 1, 1)})

\* The evaluations exam e1 can start with: none, or one that an earlier
\* send-solutions created for two of its submitters and its evaluator has
\* marked since.
EarlierEvaluations(doc, list) ==
    {EmptyBag} \cup
    {SetToBag({Marked(NewEvaluation("e1", list[1], list[2], doc.numQuestions))}) :
        x \in {y \in {1} : doc.k >= 1 /\ Len(list) >= 2 /\ list[1] # list[2]}}

\* Exam e1 belongs to teacher t1, the only teacher whose requests are
\* followed; exam e2 is another teacher's.
InitStores(lists) ==
    /\ \E d \in ExamDocs("t1"), l \in lists :
          /\ exams = [e \in ExamIds |-> IF e = "e1" THEN d ELSE OtherExam]
          /\ submissions = [e \in ExamIds |-> IF e = "e1" THEN l ELSE <<1, 2>>]
          /\ \E b \in EarlierEvaluations(d, l) : evaluations = b (+) OtherEvaluations
    /\ reqs = [p \in Procs |-> IdleReq]
    /\ started = 0

\* No batch and no user: the exam handlers read neither collection.
NoAdmin == users = [m \in Emails |-> NoUser] /\ batch = NoBatch

\* ... and with any number of submissions per student.
AnyLists == UNION {ListsOfLength(n) : n \in 0..Cardinality(Students)}

\* Requests served one after another, one submission per student.
Init == InitStores(DistinctLists) /\ concurrent = FALSE /\ NoAdmin

\* Requests served one after another, any number of submissions per student.
InitDup == InitStores(AnyLists) /\ concurrent = FALSE /\ NoAdmin

\* Requests whose store operations interleave.
InitConc == InitStores(DistinctLists) /\ concurrent = TRUE /\ NoAdmin

\* The teachers a request can name and the courses they can have.
TeacherDocs ==
    {[exists |-> TRUE, role |-> "teacher", enrolledCourses |-> cs] :
        cs \in {<<>>, <<"c1">>, <<"c1", "c2">>}}

\* A batch of course c1 with teacher t and at most student a in it, one exam
\* with two submitters; requests served one after another.
InitAdmin ==
    /\ exams = [e \in ExamIds |-> IF e = "e1"
                   THEN [exists |-> TRUE, createdBy |-> "t1", k |-> 1, numQuestions |-> 1]
                   ELSE OtherExam]
    /\ submissions = [e \in ExamIds |-> <<1, 2>>]
    /\ evaluations = OtherEvaluations
    /\ reqs = [p \in Procs |-> IdleReq]
    /\ started = 0
    /\ concurrent = FALSE
    /\ \E td \in TeacherDocs, known \in SUBSET {"a"}, roster \in {<<>>, <<"a">>} :
          /\ Range(roster) \subseteq known
          /\ users = [m \in Emails |->
                IF m = "t" THEN td
                ELSE IF m \in known
                THEN [exists |-> TRUE, role |-> "student", enrolledCourses |-> <<"c1">>]
                ELSE NoUser]
          /\ batch = [exists |-> TRUE, course |-> "c1", students |-> roster]

Next ==
    \/ \E p \in Procs, t \in Teachers, e \in ExamIds : SendFindExam(p, t, e)
    \/ \E p \in Procs : SendFindSubmissions(p)
    \/ \E p \in Procs : SendFindEvaluation(p)
    \/ \E p \in Procs : SendCreateEvaluation(p)
    \/ \E p \in Procs, t \in Teachers, e \in ExamIds : DeleteFindExam(p, t, e)
    \/ \E p \in Procs : DeleteEvaluations(p)
    \/ \E p \in Procs : DeleteSubmissions(p)
    \/ \E p \in Procs : DeleteExam(p)
    \/ \E p \in Procs, t \in Teachers, e \in ExamIds, k \in KValues, n \in 0..MaxQuestions :
          EditFindExam(p, t, e, k, n)
    \/ \E p \in Procs : EditSave(p)
    \/ \E p \in Procs : Fail(p)
    \/ \E p \in Procs, rec \in BagToSet(evaluations) : SubmitMarks(p, rec)
    \/ \E p \in Procs, rows \in RowsRead : EnrollStudents(p, rows)
    \/ \E p \in Procs, m \in {"a", "t"} : \E c \in CodesRead(m) :
          AssignTeacherToCourse(p, m, c)
    \/ \E p \in Procs, m \in {"a", "t"} : \E c \in CodesRead(m) :
          UnassignTeacherFromCourse(p, m, c)

Spec == Init /\ [][Next]_vars

SpecDup == InitDup /\ [][Next]_vars

SpecConc == InitConc /\ [][Next]_vars

SpecAdmin == InitAdmin /\ [][Next]_vars
\* ---------------------------------------------------------------- claims
\* The bag of the records of `bag` that satisfy Keep.
Only(bag, Keep(_)) == [rec \in {x \in BagToSet(bag) : Keep(x)} |-> bag[rec]]

\* How many records the store holds for (exam, evaluator, evaluatee).
TripleCount(bag, e, a, b) ==
    LET Same(rec) == rec.exam = e /\ rec.evaluator = a /\ rec.evaluatee = b
    IN  BagCardinality(Only(bag, Same))

\* How many records the store holds for an evaluator of an exam.
EvaluatorCount(bag, e, a) ==
    LET Same(rec) == rec.exam = e /\ rec.evaluator = a
    IN  BagCardinality(Only(bag, Same))

TriplesUnique ==
    \A e \in ExamIds, a \in Students, b \in Students :
        TripleCount(evaluations, e, a, b) <= 1

\* C1: no Evaluation record of the store has its evaluator as its evaluatee,
\* whatever list of submissions the exam has, a student with two
\* submissions included.
C1_NoSelfAssignment ==
    \A rec \in BagToSet(evaluations) : rec.evaluator # rec.evaluatee

\* C2: while send-solutions requests run one after another, a request that
\* failed part-way through its inserts and its re-invocation included, the
\* store holds at most one Evaluation record per (exam, evaluator, evaluatee).
C2_PairUniqueSequential == ~concurrent => TriplesUnique

\* A re-invocation has answered 200 after an earlier invocation had stopped
\* part-way: one submitter had records before it and another had none, and
\* the re-invocation has given that other one its records.
C2_Witness ==
    \E p \in Procs :
        LET r == reqs[p]
        IN  /\ r.op = "send" /\ r.pc = "done" /\ r.status = 200 /\ r.examId = "e1"
            /\ r.pre.exams["e1"] = exams["e1"]
            /\ \A rec \in BagToSet(r.pre.evaluations) : rec.status = "pending"
            /\ \E a, b \in Students :
                 /\ EvaluatorCount(r.pre.evaluations, "e1", a) > 0
                 /\ EvaluatorCount(r.pre.evaluations, "e1", b) = 0
                 /\ EvaluatorCount(evaluations, "e1", b) > 0

\* C3: after repeated send-solutions invocations for the same exam with the
\* same k >= 0 and the same submitters, every evaluator has at most k
\* Evaluation records for that exam (stated of the exams whose records are
\* all as send-solutions created them).
C3_TotalCap ==
    \A p \in Procs :
        LET r == reqs[p]
        IN  (/\ r.op = "send" /\ r.pc = "done" /\ r.status = 200
             /\ r.exam.k >= 0
             /\ \A rec \in BagToSet(evaluations) : rec.status = "pending"
             /\ r.pre.exams[r.examId] = exams[r.examId]
             /\ r.pre.submissions[r.examId] = submissions[r.examId])
            => \A a \in Students :
                 EvaluatorCount(evaluations, r.examId, a) <= r.exam.k

\* C4: while the store operations of two send-solutions requests for the
\* same exam interleave, the store never holds two Evaluation records with
\* the same (exam, evaluator, evaluatee).
C4_PairUniqueConcurrent == concurrent => TriplesUnique
\* The records a request has added to the store since it arrived, while
\* requests are served one after another.
CreatedBy(r) == evaluations (-) r.pre.evaluations

\* C5: for S distinct submitters and k >= 0, one send-solutions invocation
\* creates at most min(k, S-1) records per evaluator; when the exam had no
\* record before, it creates exactly min(k, S-1) per evaluator, with distinct
\* evaluatees taken from the other submitters, S * min(k, S-1) in all.
C5_PerInvocationCount ==
    \A p \in Procs :
        LET r == reqs[p]
            e == r.examId
            S == Len(r.students)
            c == Min(r.exam.k, S - 1)
        IN  (~concurrent /\ r.op = "send" /\ r.exam.exists /\ r.exam.k >= 0 /\ S > 0)
            => /\ \A a \in Students : EvaluatorCount(CreatedBy(r), e, a) <= c
               /\ (/\ r.pc = "done" /\ r.status = 200
                   /\ \A rec \in BagToSet(r.pre.evaluations) : rec.exam # e)
                  => /\ BagCardinality(CreatedBy(r)) = S * c
                     /\ \A a \in Range(r.students) :
                          EvaluatorCount(CreatedBy(r), e, a) = c
                     /\ \A rec \in BagToSet(CreatedBy(r)) :
                          /\ rec.exam = e
                          /\ rec.evaluator \in Range(r.students)
                          /\ rec.evaluatee \in Range(r.students) \ {rec.evaluator}
                          /\ CopiesIn(rec, CreatedBy(r)) = 1

\* Three submitters and k = 2, no record before: six records created.
C5_Witness ==
    \E p \in Procs :
        LET r == reqs[p]
        IN  /\ r.op = "send" /\ r.pc = "done" /\ r.status = 200
            /\ Len(r.students) = 3 /\ r.exam.k = 2
            /\ \A rec \in BagToSet(r.pre.evaluations) : rec.exam # r.examId
            /\ BagCardinality(CreatedBy(r)) = 6

\* C6: a send-solutions invocation on an exam whose k is negative is
\* rejected before any assignment is computed: it reaches no existence
\* check and no insert, creates no record, and does not answer 200.
C6_NegativeKRejected ==
    \A p \in Procs :
        LET r == reqs[p]
        IN  (r.op = "send" /\ r.exam.exists /\ r.exam.k < 0)
            => /\ r.pc \notin {"findEvaluation", "createEvaluation"}
               /\ ~(r.pc = "done" /\ r.status = 200)
               /\ CreatedBy(r) = EmptyBag

\* The records a step adds to the store.
Added(before, after) ==
    {rec \in BagToSet(after) : CopiesIn(rec, after) > CopiesIn(rec, before)}

\* C7: every record send-solutions creates has, as it is created, a marks
\* vector of the length of the exam's numQuestions as the invocation read
\* it, every mark 0, the feedback empty and the status pending.
C7_SeededRecords ==
    [][\A p \in Procs :
         (reqs[p].pc = "createEvaluation" /\ reqs'[p] # reqs[p] /\ reqs'[p].status # 500)
         => /\ BagCardinality(evaluations') = BagCardinality(evaluations) + 1
            /\ \A rec \in Added(evaluations, evaluations') :
                 /\ Len(rec.marks) = reqs[p].exam.numQuestions
                 /\ \A q \in DOMAIN rec.marks : rec.marks[q] = 0
                 /\ rec.feedback = ""
                 /\ rec.status = "pending"]_vars

\* An invocation that read numQuestions = 2 has created a record.
C7_Witness ==
    \E p \in Procs :
        LET r == reqs[p]
        IN  /\ r.op = "send" /\ r.exam.numQuestions = 2
            /\ \E rec \in BagToSet(CreatedBy(r)) : Len(rec.marks) = 2

\* C8: when the exam has zero or one submitting student, send-solutions
\* creates no record whatever k is; with one submitter it answers 200, with
\* none it answers 400 'No submissions found for this exam'.
C8_FewSubmitters ==
    \A p \in Procs :
        LET r == reqs[p]
            S == Len(r.pre.submissions[r.examId])
        IN  (~concurrent /\ r.op = "send" /\ r.exam.exists /\ S <= 1)
            => /\ evaluations = r.pre.evaluations
               /\ r.pc \notin {"findEvaluation", "createEvaluation"}
               /\ (r.pc = "done" /\ r.status # 500)
                  => IF S = 1
                     THEN r.status = 200
                     ELSE r.status = 400 /\ r.error = "No submissions found for this exam"

\* An invocation for one submitter and k >= 1 has answered 200.
C8_Witness ==
    \E p \in Procs :
        LET r == reqs[p]
        IN  /\ r.op = "send" /\ r.pc = "done" /\ r.status = 200
            /\ Len(r.students) = 1 /\ r.exam.k >= 1

\* C9: once a delete-exam request of the exam's creator has answered 200,
\* no other request running, the store holds no Evaluation and no Submission
\* of that exam and not the exam; the records of other exams are as before.
C9_CascadeDelete ==
    \A p \in Procs :
        LET r == reqs[p]
            e == r.examId
        IN  (~concurrent /\ r.op = "delete" /\ r.pc = "done" /\ r.status = 200)
            => /\ \A rec \in BagToSet(evaluations) : rec.exam # e
               /\ submissions[e] = <<>>
               /\ ~exams[e].exists
               /\ \A o \in ExamIds \ {e} :
                    /\ exams[o] = r.pre.exams[o]
                    /\ submissions[o] = r.pre.submissions[o]
               /\ LET Other(rec) == rec.exam # e
                  IN  evaluations = Only(r.pre.evaluations, Other)

\* An exam that had submissions and evaluations has been deleted, while
\* another exam has evaluations.
C9_Witness ==
    \E p \in Procs :
        LET r == reqs[p]
        IN  /\ r.op = "delete" /\ r.pc = "done" /\ r.status = 200
            /\ \E rec \in BagToSet(r.pre.evaluations) : rec.exam = r.examId
            /\ r.pre.submissions[r.examId] # <<>>
            /\ evaluations # EmptyBag

\* C10: a step of send-solutions leaves every record of the store as it is
\* and adds only pending records; and no step of any handler takes a
\* completed record back to pending or changes it (completed records
\* disappear only with all the records of their exam, when it is deleted).
C10_StatusMachine ==
    [][\/ evaluations' = evaluations
       \/ /\ \A p \in Procs :
               (reqs[p].op = "send" /\ Running(reqs[p]) /\ reqs'[p] # reqs[p])
               => /\ evaluations \sqsubseteq evaluations'
                  /\ \A rec \in Added(evaluations, evaluations') : rec.status = "pending"
          /\ \A rec \in BagToSet(evaluations) :
               rec.status = "completed"
               => \/ CopiesIn(rec, evaluations') >= CopiesIn(rec, evaluations)
                  \/ \A other \in BagToSet(evaluations') : other.exam # rec.exam]_vars

\* A re-run has created records for an exam that had a completed record,
\* which is still there.
C10_Witness ==
    \E p \in Procs :
        LET r == reqs[p]
        IN  /\ r.op = "send" /\ r.pc = "done" /\ r.status = 200
            /\ CreatedBy(r) # EmptyBag
            /\ \E rec \in BagToSet(r.pre.evaluations) :
                 /\ rec.exam = r.examId /\ rec.status = "completed"
                 /\ BagIn(rec, evaluations)
\* C11: send-solutions, edit-exam and delete-exam of a teacher who is not
\* the exam's createdBy, or for an exam that does not exist, answer 404
\* 'Exam not found or unauthorized' and leave the Exam, Submission and
\* Evaluation collections as they were.
C11_OwnershipCheck ==
    \A p \in Procs :
        LET r == reqs[p]
            doc == r.pre.exams[r.examId]
        IN  (/\ ~concurrent
             /\ r.op \in {"send", "edit", "delete"}
             /\ ~(doc.exists /\ doc.createdBy = r.teacher))
            => /\ r.pc = "done" /\ r.status = 404
               /\ r.error = "Exam not found or unauthorized"
               /\ exams = r.pre.exams
               /\ submissions = r.pre.submissions
               /\ evaluations = r.pre.evaluations

\* A delete-exam of a teacher for another teacher's exam, which has
\* submissions and evaluations, has been answered.
C11_Witness ==
    \E p \in Procs :
        LET r == reqs[p]
        IN  /\ r.op = "delete" /\ r.pc = "done"
            /\ exams[r.examId].exists /\ exams[r.examId].createdBy # r.teacher
            /\ submissions[r.examId] # <<>>
            /\ \E rec \in BagToSet(evaluations) : rec.exam = r.examId

\* C12: when a delete-exam and a send-solutions for the same exam interleave
\* at their store operations, then once both have finished, no store
\* operation having failed, no Evaluation record refers to an exam that is
\* gone.
C12_NoOrphanEvaluations ==
    (concurrent /\ \A p \in Procs : ~Running(reqs[p]) /\ reqs[p].status # 500)
    => \A rec \in BagToSet(evaluations) : exams[rec.exam].exists

\* A list holds no element twice.
NoRepeats(s) == \A x, y \in DOMAIN s : s[x] = s[y] => x = y

\* C13: whatever enroll requests were answered, with lists that may name an
\* email more than once, the batch's students list holds no student twice,
\* and the enrolledCount of a request answered 200 is the number of students
\* its call added to the batch.
C13_RosterUnique ==
    /\ NoRepeats(batch.students)
    /\ \A p \in Procs :
          LET r == reqs[p]
          IN  (r.op = "enroll" /\ r.pc = "done" /\ r.status = 200
               /\ batch = [r.pre.batch EXCEPT !.students = batch.students])
              => r.enrolledCount =
                    Cardinality(Range(batch.students) \ Range(r.pre.batch.students))

\* C14: with requests served one after another, a teacher's enrolledCourses
\* holds no course twice; an assign answered 200 leaves the list as it was
\* when the course was in it and appends the course otherwise; after an
\* unassign answered 200 the course is not in the list and the other courses
\* are, in their order; a request is answered 200 only when the teacher and
\* the course exist, and a 404 changes no user.
C14_AssignIdempotent ==
    /\ \A m \in Emails : users[m].role = "teacher" => NoRepeats(users[m].enrolledCourses)
    /\ \A p \in Procs :
          LET r == reqs[p]
              before == r.pre.users[r.email].enrolledCourses
              after == users[r.email].enrolledCourses
              NotC(id) == id # r.courseCode
          IN  (r.op \in {"assign", "unassign"} /\ r.pc = "done")
              => /\ r.status \in {200, 404}
                 /\ r.status = 404 => users = r.pre.users
                 /\ r.status = 200 =>
                       /\ r.pre.users[r.email].exists
                       /\ r.pre.users[r.email].role = "teacher"
                       /\ r.courseCode \in Courses
                       /\ \A m \in Emails \ {r.email} : users[m] = r.pre.users[m]
                 /\ (r.status = 200 /\ r.op = "assign") =>
                       after = IF r.courseCode \in Range(before) THEN before
                               ELSE Append(before, r.courseCode)
                 /\ (r.status = 200 /\ r.op = "unassign") =>
                       /\ r.courseCode \notin Range(after)
                       /\ after = SelectSeq(before, NotC)

\* An assign of a course the teacher already had, answered 200.
C14_Witness ==
    \E p \in Procs :
        LET r == reqs[p]
        IN  /\ r.op = "assign" /\ r.pc = "done" /\ r.status = 200
            /\ r.courseCode \in Range(r.pre.users[r.email].enrolledCourses)
            /\ Len(users[r.email].enrolledCourses) = 2

====
